---- MODULE Spec2Model ----
(***************************************************************************)
(* State-machine model of the two interactive blocks of the repository:    *)
(*   - the image-carousel block (blocks/image-carousel/image-carousel.js)  *)
(*   - the video-hero block     (the video-hero decorate module)           *)
(* Text (URLs, ids, attribute values) is modelled as sequences of          *)
(* one-character strings, so that matching, splitting and encoding are     *)
(* computed as the code computes them.                                     *)
(***************************************************************************)
EXTENDS Integers, Sequences, FiniteSets, TLC

(***************************************************************************)
(* Bounds of the model                                                     *)
(***************************************************************************)
\* largest number of rows (slides) of a carousel
MaxSlides == 3
\* direct calls of scrollToSlide take arguments in -MaxOver .. length-1+MaxOver
MaxOver == 2
\* largest number of entries in one IntersectionObserver notification
MaxEntries == 2
\* most embeds a video-hero block holds when loadVideoEmbed is called directly
MaxEmbeds == 2
\* largest number of rows of a teaser block
MaxTeaserRows == 2
\* largest number of cells in the first row of a teaser block
MaxCells == 2

(***************************************************************************)
(* Text helpers                                                            *)
(***************************************************************************)
\* the falsy "no value" of every text-valued expression (null, undefined, empty string)
Null == <<>>

\* s.startsWith(m, i - 1): m occurs in s at position i (1-based)
StartsWithAt(s, m, i) ==
    /\ i >= 1
    /\ i + Len(m) - 1 <= Len(s)
    /\ \A k \in 1..Len(m) : s[i + k - 1] = m[k]

\* String.prototype.includes
includes(s, m) == \E i \in 1..(Len(s) + 1) : StartsWithAt(s, m, i)

\* the least element of a non-empty set of positions
Least(S) == CHOOSE i \in S : \A j \in S : i <= j

\* the least element of S, or none when S is empty
LeastOr(S, none) == IF S = {} THEN none ELSE Least(S)

\* smallest position >= from whose character is in stops, Len(s) + 1 if none
FirstOf(s, stops, from) ==
    LeastOr({i \in from..Len(s) : s[i] \in stops}, Len(s) + 1)

RECURSIVE split(_, _)
\* split, given the position k of the first separator (Len(s) + 1: none)
splitAt(s, sep, k) ==
    IF k > Len(s) THEN <<s>>
    ELSE <<SubSeq(s, 1, k - 1)>> \o split(SubSeq(s, k + 1, Len(s)), sep)

\* String.prototype.split on a one-character separator
split(s, sep) == splitAt(s, sep, FirstOf(s, {sep}, 1))

\* Array.prototype.pop of a non-empty array: its last element
pop(parts) == parts[Len(parts)]

RECURSIVE Flatten(_)
\* Array.prototype.join with an empty separator of a sequence of texts
Flatten(parts) ==
    IF parts = <<>> THEN <<>> ELSE Head(parts) \o Flatten(Tail(parts))

\* the characters the URL parser percent-encodes in a path, with their escapes
PathEscapes ==
    [c \in {" ", "{", "}", "<", ">", "^"} |->
        CASE c = " " -> <<"%","2","0">>
          [] c = "{" -> <<"%","7","B">>
          [] c = "}" -> <<"%","7","D">>
          [] c = "<" -> <<"%","3","C">>
          [] c = ">" -> <<"%","3","E">>
          [] c = "^" -> <<"%","5","E">>]

\* a path as the URL parser stores it
PercentEncodePath(s) ==
    IF \A i \in 1..Len(s) : s[i] \notin DOMAIN PathEscapes THEN s
    ELSE Flatten([i \in 1..Len(s) |->
             IF s[i] \in DOMAIN PathEscapes THEN PathEscapes[s[i]] ELSE <<s[i]>>])

\* "https://"
StrHttps ==
    <<"h","t","t","p","s",":","/","/">>

\* first position after the host of an https URL
HostEnd(u) == FirstOf(u, {"/", "?", "#"}, Len(StrHttps) + 1)

\* first position after the path of an https URL
PathEnd(u) == FirstOf(u, {"?", "#"}, HostEnd(u))

\* new URL(u) succeeds: an https URL with a non-empty host
IsUrl(u) == StartsWithAt(u, StrHttps, 1) /\ HostEnd(u) > Len(StrHttps) + 1

\* new URL(u).origin
origin(u) == SubSeq(u, 1, HostEnd(u) - 1)

\* the path of a URL between the end of its host and the end of its path
PathBetween(u, hostEnd, pathEnd) ==
    IF hostEnd = pathEnd THEN <<"/">>
    ELSE PercentEncodePath(SubSeq(u, hostEnd, pathEnd - 1))

\* new URL(u).pathname
pathname(u) == PathBetween(u, HostEnd(u), PathEnd(u))

\* new URL(u).search: the query with its question mark, empty when absent or bare
search(u) ==
    LET q == SubSeq(u, PathEnd(u), FirstOf(u, {"#"}, PathEnd(u)) - 1)
    IN  IF Len(q) <= 1 THEN <<>> ELSE q

\* decimal digits
Digits == <<"0","1","2","3","4","5","6","7","8","9">>

RECURSIVE IntToString(_)
\* String(n) for n >= 0, as dataset and setAttribute store a number
IntToString(n) ==
    IF n < 10 THEN <<Digits[n + 1]>>
    ELSE IntToString(n \div 10) \o <<Digits[(n % 10) + 1]>>

RECURSIVE parseInt(_)
\* parseInt(s, 10) of a non-empty string of decimal digits
parseInt(s) ==
    LET d == CHOOSE k \in 0..9 : Digits[k + 1] = s[Len(s)]
    IN  IF Len(s) = 1 THEN d
        ELSE 10 * parseInt(SubSeq(s, 1, Len(s) - 1)) + d

\* setAttribute(name, <boolean>) stores the boolean's string form
BoolToString(b) == IF b THEN <<"t","r","u","e">> ELSE <<"f","a","l","s","e">>

(***************************************************************************)
(* image-carousel: authored rows                                           *)
(***************************************************************************)
\* "https://www.youtube.com/watch?v=XYZ12345678"
UrlVideoXYZ ==
    <<"h","t","t","p","s",":","/","/","w","w","w",".","y","o","u","t","u","b","e",".","c","o","m","/","w","a","t","c","h","?","v","=","X","Y","Z","1","2","3","4","5","6","7","8">>
\* "https://youtu.be/XYZ12#45678"
UrlVideoHash ==
    <<"h","t","t","p","s",":","/","/","y","o","u","t","u",".","b","e","/","X","Y","Z","1","2","#","4","5","6","7","8">>
\* "https://youtu.be/XYZ"
UrlVideoShort ==
    <<"h","t","t","p","s",":","/","/","y","o","u","t","u",".","b","e","/","X","Y","Z">>
\* a row with an image and no link
ImageRow == [href |-> Null, img |-> TRUE]
\* a row with a YouTube link whose id parses
VideoRow == [href |-> UrlVideoXYZ, img |-> FALSE]
\* a row with a YouTube link whose 11 matched characters hold a #
VideoHashRow == [href |-> UrlVideoHash, img |-> FALSE]
\* a row with a YouTube link with no parseable id, and no image
BrokenVideoRow == [href |-> UrlVideoShort, img |-> FALSE]

RowKinds == {ImageRow, VideoRow, VideoHashRow, BrokenVideoRow}

\* "https://www.youtube.com/watch?v=XYZ{2345678"
UrlVideoBrace ==
    <<"h","t","t","p","s",":","/","/","w","w","w",".","y","o","u","t","u","b","e",".","c","o","m","/","w","a","t","c","h","?","v","=","X","Y","Z","{","2","3","4","5","6","7","8">>
\* a row with a YouTube link whose 11 matched characters hold a {, which a
\* query keeps and a path percent-encodes
VideoBraceRow == [href |-> UrlVideoBrace, img |-> FALSE]

BraceRowKinds == {ImageRow, VideoRow, VideoBraceRow}

\* the authored rows of a carousel of n slides (block.children)
RowLists(n) == [0..(n - 1) -> RowKinds]

(***************************************************************************)
(* image-carousel: pure functions                                          *)
(***************************************************************************)
\* "youtu.be/"
StrYoutuBe ==
    <<"y","o","u","t","u",".","b","e","/">>
\* "youtube.com"
StrYoutubeCom ==
    <<"y","o","u","t","u","b","e",".","c","o","m">>
\* "youtu.be"
StrYoutuBeHost ==
    <<"y","o","u","t","u",".","b","e">>
\* "youtube.com/embed/"
StrYoutubeEmbed ==
    <<"y","o","u","t","u","b","e",".","c","o","m","/","e","m","b","e","d","/">>
\* "youtube.com/v/"
StrYoutubeV ==
    <<"y","o","u","t","u","b","e",".","c","o","m","/","v","/">>
\* "youtube.com/watch?v="
StrYoutubeWatchV ==
    <<"y","o","u","t","u","b","e",".","c","o","m","/","w","a","t","c","h","?","v","=">>
\* "youtube.com/watch?"
StrYoutubeWatchQ ==
    <<"y","o","u","t","u","b","e",".","c","o","m","/","w","a","t","c","h","?">>
\* "&v="
StrAmpV ==
    <<"&","v","=">>
\* "https://www.youtube.com/embed/"
StrEmbedBase ==
    <<"h","t","t","p","s",":","/","/","w","w","w",".","y","o","u","t","u","b","e",".","c","o","m","/","e","m","b","e","d","/">>
\* "?rel=0&enablejsapi=1"
StrEmbedParams ==
    <<"?","r","e","l","=","0","&","e","n","a","b","l","e","j","s","a","p","i","=","1">>
\* "&autoplay=1&mute=1"
StrAutoplayMute ==
    <<"&","a","u","t","o","p","l","a","y","=","1","&","m","u","t","e","=","1">>
\* "https://youtube.com/watch?v="
StrRebuildBase ==
    <<"h","t","t","p","s",":","/","/","y","o","u","t","u","b","e",".","c","o","m","/","w","a","t","c","h","?","v","=">>

\* length of the id group of the regular expression: {11}
IdLen == 11

\* characters the id group [^"&?\/\s] rejects (a double quote never occurs
\* in a serialised href and is left out of the alphabet)
IdExcluded == {"&", "?", "/", " "}

\* the id group matches at position j
IdAt(s, j) ==
    /\ j + IdLen - 1 <= Len(s)
    /\ \A k \in j..(j + IdLen - 1) : s[k] \notin IdExcluded

\* the alternatives of the regular expression that end in a fixed text
FixedPrefixes == {StrYoutuBe, StrYoutubeEmbed, StrYoutubeV, StrYoutubeWatchV}

\* the greatest element of S, or none when S is empty
GreatestOr(S, none) ==
    IF S = {} THEN none ELSE CHOOSE j \in S : \A k \in S : k <= j

\* where the id starts when a fixed alternative matches from position i, else 0
FixedIdStart(s, i) ==
    LeastOr({i + Len(p) : p \in {q \in FixedPrefixes :
                 StartsWithAt(s, q, i) /\ IdAt(s, i + Len(q))}}, 0)

\* where the id starts when /watch\?.+&v= matches from position i, else 0:
\* the greedy .+ takes the last &v= that an id follows
GreedyIdStart(s, i) ==
    IF ~StartsWithAt(s, StrYoutubeWatchQ, i) THEN 0
    ELSE GreatestOr({j \in (i + Len(StrYoutubeWatchQ) + 1 + Len(StrAmpV))..Len(s) :
                        StartsWithAt(s, StrAmpV, j - Len(StrAmpV)) /\ IdAt(s, j)}, 0)

\* the first of two id starts that is one (the alternatives in their order)
FirstAlternative(fixed, s, i) ==
    IF fixed # 0 THEN fixed ELSE GreedyIdStart(s, i)

\* where the id starts when the regular expression matches from position i,
\* else 0 (every alternative starts with the letter y)
IdStartAt(s, i) ==
    IF s[i] # "y" THEN 0 ELSE FirstAlternative(FixedIdStart(s, i), s, i)

\* the id that starts at position j, Null for the no-match position 0
IdFrom(url, j) == IF j = 0 THEN Null ELSE SubSeq(url, j, j + IdLen - 1)

\* the id of the match at the leftmost position of starts, Null when none
LeftmostId(url, starts) ==
    IF starts = {} THEN Null ELSE IdFrom(url, IdStartAt(url, Least(starts)))

\* url.match(<regular expression>)?.[1]: the id of the leftmost match, or Null
matchVideoId(url) ==
    LeftmostId(url, {i \in 1..Len(url) : IdStartAt(url, i) # 0})

\* the src createYouTubeEmbed writes for a video id, Null for no id
EmbedSrc(videoId, autoplay) ==
    IF videoId = Null THEN Null
    ELSE StrEmbedBase \o videoId \o StrEmbedParams
             \o (IF autoplay THEN StrAutoplayMute ELSE <<>>)

\* createYouTubeEmbed: the src of the iframe of the wrapper it returns,
\* Null when it returns null
createYouTubeEmbed(url, autoplay) == EmbedSrc(matchVideoId(url), autoplay)

\* createYouTubePreview returns a wrapper holding an img, or null
createYouTubePreview(url) == matchVideoId(url) # Null

\* the iframe src is of the autoplaying variant
IsAutoplay(src) == includes(src, StrAutoplayMute)

\* wrapper.replaceWith(newEmbed) without the test for null
ReplaceWithUnchecked(src, newEmbed) == newEmbed

\* if (newEmbed) wrapper.replaceWith(newEmbed): the src the slide holds then
ReplaceWith(src, newEmbed) == IF newEmbed # Null THEN newEmbed ELSE src

\* new URL(iframe.src).pathname.split('/').pop() and the embed rebuilt from it
rebuildEmbed(src, autoplay) ==
    ReplaceWith(src, createYouTubeEmbed(
        StrRebuildBase \o pop(split(pathname(src), "/")), autoplay))

\* the iframe srcs decorate writes for the modelled rows
DecoratedSrcs == {createYouTubeEmbed(r.href, FALSE) : r \in RowKinds} \ {Null}

\* a set of srcs with every src one rebuild makes of them
RebuildOnce(S) == S \cup {rebuildEmbed(src, autoplay) : src \in S, autoplay \in BOOLEAN}

\* the iframe srcs a slide of the modelled rows can hold
KnownSrcs == RebuildOnce(RebuildOnce(DecoratedSrcs))

\* rebuildEmbed tabulated over the known srcs
Rebuilt ==
    [src \in KnownSrcs |-> [autoplay \in BOOLEAN |-> rebuildEmbed(src, autoplay)]]

\* rebuildEmbed, read from the table where the table has the src
RebuildEmbed(src, autoplay) ==
    IF src \in KnownSrcs THEN Rebuilt[src][autoplay]
    ELSE rebuildEmbed(src, autoplay)

\* the first loop of handleVideoPlayback: every iframe is rebuilt non-autoplaying
pauseAll(slides) ==
    [i \in DOMAIN slides |->
        IF slides[i].iframeSrc # Null
        THEN [slides[i] EXCEPT !.iframeSrc = RebuildEmbed(@, FALSE)]
        ELSE slides[i]]

\* the second step of handleVideoPlayback: the iframe of an active video
\* slide is rebuilt autoplaying
startActive(slides, index) ==
    IF /\ index \in DOMAIN slides
       /\ slides[index].videoSlide
       /\ slides[index].iframeSrc # Null
    THEN [slides EXCEPT ![index].iframeSrc = RebuildEmbed(@, TRUE)]
    ELSE slides

\* handleVideoPlayback on the slide list
handleVideoPlayback(slides, index) == startActive(pauseAll(slides), index)

\* updateIndicators with classList.toggle called without its force argument
updateIndicatorsToggle(indicators, activeIndex) ==
    [i \in DOMAIN indicators |->
        [indicators[i] EXCEPT !.active = IF i = activeIndex THEN ~@ ELSE @,
                              !.ariaSelected = BoolToString(i = activeIndex)]]

\* updateIndicators that moves the active class and leaves aria-selected alone
updateIndicatorsClassOnly(indicators, activeIndex) ==
    [i \in DOMAIN indicators |->
        [indicators[i] EXCEPT !.active = (i = activeIndex)]]

\* updateIndicators
updateIndicators(indicators, activeIndex) ==
    [i \in DOMAIN indicators |->
        [indicators[i] EXCEPT !.active = (i = activeIndex),
                              !.ariaSelected = BoolToString(i = activeIndex)]]

\* updateThumbnails: index is the position among the thumbnails
updateThumbnails(thumbnails, activeIndex) ==
    [i \in DOMAIN thumbnails |->
        [thumbnails[i] EXCEPT !.active = (i = activeIndex),
                              !.ariaSelected = BoolToString(i = activeIndex)]]

\* a wrap-around that stops at the ends instead of wrapping
normalizeIndexClamp(index, length) ==
    IF index < 0 THEN 0
    ELSE IF index >= length THEN length - 1
    ELSE index

\* a wrap-around that sends an index below 0 to the first slide
normalizeIndexFirst(index, length) ==
    IF index < 0 THEN 0
    ELSE IF index >= length THEN 0
    ELSE index

\* no wrap-around: the index is used as it comes
normalizeIndexNone(index, length) == index

\* a wrap-around by remainder
normalizeIndexModulo(index, length) == ((index % length) + length) % length

\* the wrap-around of scrollToSlide
normalizeIndex(index, length) ==
    IF index < 0 THEN length - 1
    ELSE IF index >= length THEN 0
    ELSE index

\* scrollToSlide without the loop that removes the active class
deactivateNone(slides) == slides

\* slide.classList.remove('active') on every slide
deactivateAll(slides) ==
    [i \in DOMAIN slides |-> [slides[i] EXCEPT !.active = FALSE]]

\* scrollToSlide that does not store the index in dataset.currentSlide
showSlideKeepsIndex(block, index) ==
    IF index \notin DOMAIN block.slides
    THEN [block EXCEPT !.slides = deactivateAll(@)]
    ELSE [block EXCEPT
            !.slides = handleVideoPlayback(
                           [deactivateAll(@) EXCEPT ![index].active = TRUE], index),
            !.indicators = updateIndicators(@, index),
            !.thumbnails = updateThumbnails(@, index)]

\* scrollToSlide after its wrap-around; indexing a slide that does not exist
\* throws after the active classes were removed
showSlide(block, index) ==
    IF index \notin DOMAIN block.slides
    THEN [block EXCEPT !.slides = deactivateAll(@)]
    ELSE [block EXCEPT
            !.slides = handleVideoPlayback(
                           [deactivateAll(@) EXCEPT ![index].active = TRUE], index),
            !.indicators = updateIndicators(@, index),
            !.thumbnails = updateThumbnails(@, index),
            !.currentSlide = IntToString(index)]

\* scrollToSlide
scrollToSlide(block, target) ==
    showSlide(block, normalizeIndex(target, Cardinality(DOMAIN block.slides)))

\* controls built for a single slide too
hasControlsAlways(length) == length >= 1

\* the rows of a block carry more than one slide: controls are built
hasControls(length) == length > 1

\* createIndicators
createIndicators(count) ==
    [i \in 0..(count - 1) |->
        [active |-> FALSE, ariaSelected |-> BoolToString(i = 0)]]

\* the anchor found by a[href*="youtube.com"], a[href*="youtu.be"]
hasYouTubeLink(row) ==
    includes(row.href, StrYoutubeCom) \/ includes(row.href, StrYoutuBeHost)

\* the row holds an img once decorate has processed it: its own image, or
\* the preview image that replaced the link
rowHasImg(row) ==
    \/ row.img
    \/ /\ hasYouTubeLink(row)
       /\ createYouTubeEmbed(row.href, FALSE) # Null
       /\ createYouTubePreview(row.href)

\* createThumbnails: one button per row that holds an img, in row order;
\* index is the row index its click handler closes over
createThumbnails(rows) ==
    LET withImg == {i \in DOMAIN rows : rowHasImg(rows[i])}
    IN  [p \in 0..(Cardinality(withImg) - 1) |->
            LET index == CHOOSE i \in withImg :
                             Cardinality({j \in withImg : j < i}) = p
            IN  [active |-> (index = 0),
                 ariaSelected |-> BoolToString(index = 0),
                 index |-> index]]

\* a slide div marked as a video slide for every YouTube link, embed or not
slideWithLinkIsVideo(row, index, videoEmbed) ==
    [active     |-> (index = 0),
     videoSlide |-> hasYouTubeLink(row),
     iframeSrc  |-> videoEmbed,
     picture    |-> ~hasYouTubeLink(row) /\ row.img]

\* the slide div for a row and the embed built from its link (Null: none)
slideWith(row, index, videoEmbed) ==
    [active     |-> (index = 0),
     videoSlide |-> videoEmbed # Null,
     iframeSrc  |-> videoEmbed,
     picture    |-> ~hasYouTubeLink(row) /\ row.img]

\* decorate building the embed of the first slide as the autoplaying variant
createSlideAutoplayFirst(row, index) ==
    slideWith(row, index,
              IF hasYouTubeLink(row)
              THEN createYouTubeEmbed(row.href, index = 0) ELSE Null)

\* the slide div decorate builds from a row
createSlide(row, index) ==
    slideWith(row, index,
              IF hasYouTubeLink(row)
              THEN createYouTubeEmbed(row.href, FALSE) ELSE Null)

\* decorate of the image-carousel block
decorate(rows) ==
    LET length   == Cardinality(DOMAIN rows)
        controls == hasControls(length)
    IN  [slides       |-> [i \in DOMAIN rows |-> createSlide(rows[i], i)],
         navigation   |-> controls,
         indicators   |-> IF controls THEN createIndicators(length) ELSE <<>>,
         thumbnails   |-> IF controls THEN createThumbnails(rows) ELSE <<>>,
         currentSlide |-> IF controls THEN IntToString(0) ELSE Null,
         observer     |-> controls]

(***************************************************************************)
(* video-hero: pure functions                                              *)
(***************************************************************************)
\* "youtube"
StrYoutube ==
    <<"y","o","u","t","u","b","e">>
\* "vimeo"
StrVimeo ==
    <<"v","i","m","e","o">>
\* "https://www.youtube.com"
StrYoutubeOrigin ==
    <<"h","t","t","p","s",":","/","/","w","w","w",".","y","o","u","t","u","b","e",".","c","o","m">>
\* "/embed/"
StrEmbedPath ==
    <<"/","e","m","b","e","d","/">>
\* "?rel=0&v="
StrRelV ==
    <<"?","r","e","l","=","0","&","v","=">>
\* "https://player.vimeo.com/video/"
StrVimeoBase ==
    <<"h","t","t","p","s",":","/","/","p","l","a","y","e","r",".","v","i","m","e","o",".","c","o","m","/","v","i","d","e","o","/">>
\* "video/"
StrVideoType ==
    <<"v","i","d","e","o","/">>
\* "Video URL is required"
StrVideoUrlRequired ==
    <<"V","i","d","e","o"," ","U","R","L"," ","i","s"," ","r","e","q","u","i","r","e","d">>
\* "autoplay"
StrAutoplay ==
    <<"a","u","t","o","p","l","a","y">>
\* "mute"
StrMute ==
    <<"m","u","t","e">>
\* "controls"
StrControls ==
    <<"c","o","n","t","r","o","l","s">>
\* "disablekb"
StrDisablekb ==
    <<"d","i","s","a","b","l","e","k","b">>
\* "loop"
StrLoop ==
    <<"l","o","o","p">>
\* "playsinline"
StrPlaysinline ==
    <<"p","l","a","y","s","i","n","l","i","n","e">>
\* "playlist"
StrPlaylist ==
    <<"p","l","a","y","l","i","s","t">>
\* "background"
StrBackground ==
    <<"b","a","c","k","g","r","o","u","n","d">>
\* "muted"
StrMuted ==
    <<"m","u","t","e","d">>

\* the characters encodeURIComponent escapes (of the alphabet used here; it
\* keeps letters, digits and - _ . ! ~ * ( ) as they are), with their escapes
ComponentEscapes ==
    [c \in {" ", "%", "#", "/", "?", "&", "=", ":", "+"} |->
        CASE c = " " -> <<"%","2","0">>
          [] c = "%" -> <<"%","2","5">>
          [] c = "#" -> <<"%","2","3">>
          [] c = "/" -> <<"%","2","F">>
          [] c = "?" -> <<"%","3","F">>
          [] c = "&" -> <<"%","2","6">>
          [] c = "=" -> <<"%","3","D">>
          [] c = ":" -> <<"%","3","A">>
          [] c = "+" -> <<"%","2","B">>]

\* encodeURIComponent
encodeURIComponent(s) ==
    Flatten([i \in 1..Len(s) |->
        IF s[i] \in DOMAIN ComponentEscapes
        THEN ComponentEscapes[s[i]] ELSE <<s[i]>>])

RECURSIVE percentDecode(_)
\* the decoding URLSearchParams applies to names and values: + is a space,
\* a known %XX escape is its character
percentDecode(s) ==
    IF s = <<>> THEN <<>>
    ELSE IF s[1] = "+" THEN <<" ">> \o percentDecode(Tail(s))
    ELSE LET hit == {c \in DOMAIN ComponentEscapes :
                        StartsWithAt(s, ComponentEscapes[c], 1)}
         IN  IF hit # {}
             THEN <<CHOOSE c \in hit : TRUE>> \o percentDecode(SubSeq(s, 4, Len(s)))
             ELSE <<s[1]>> \o percentDecode(Tail(s))

\* new URLSearchParams(query).get(name): the decoded value of the first
\* parameter of that name, Null when there is none
searchParamsGet(query, name) ==
    LET body   == IF query # <<>> /\ query[1] = "?" THEN Tail(query) ELSE query
        params == split(body, "&")
        key(p) == percentDecode(SubSeq(p, 1, FirstOf(p, {"="}, 1) - 1))
        val(p) == percentDecode(SubSeq(p, FirstOf(p, {"="}, 1) + 1, Len(p)))
        hits   == {k \in 1..Len(params) : params[k] # <<>> /\ key(params[k]) = name}
    IN  IF hits = {} THEN Null
        ELSE val(params[CHOOSE k \in hits : \A j \in hits : k <= j])

RECURSIVE joinParams(_)
\* Object.entries(params).map(([k, v]) => k=encodeURIComponent(v)).join('&')
joinParams(entries) ==
    IF entries = <<>> THEN <<>>
    ELSE entries[1][1] \o <<"=">> \o encodeURIComponent(entries[1][2])
         \o (IF Len(entries) > 1 THEN <<"&">> \o joinParams(Tail(entries)) ELSE <<>>)

\* a playlist parameter that is never set
playlistUnset(vid) == Null

\* the playlist parameter: the video id when there is one
playlistFor(vid) == IF vid # Null THEN vid ELSE Null

\* embedYoutube: the iframe it builds
embedYoutube(url) ==
    LET v      == searchParamsGet(search(url), <<"v">>)
        vid0   == IF v # Null THEN encodeURIComponent(v) ELSE Null
        embed  == pathname(url)
        vid    == IF includes(origin(url), StrYoutuBeHost)
                  THEN split(pathname(url), "/")[2] ELSE vid0
        suffixParams ==
            << <<StrAutoplay, <<"1">> >>, <<StrMute, <<"1">> >>,
               <<StrControls, <<"0">> >>, <<StrDisablekb, <<"1">> >>,
               <<StrLoop, <<"1">> >>, <<StrPlaysinline, <<"1">> >>,
               <<StrPlaylist, playlistFor(vid)>> >>
        suffix == <<"&">> \o joinParams(suffixParams)
    IN  [tag    |-> "iframe",
         src    |-> StrYoutubeOrigin \o
                    (IF vid # Null
                     THEN StrEmbedPath \o vid \o StrRelV \o vid \o suffix
                     ELSE embed),
         type   |-> Null,
         played |-> FALSE]

\* embedVimeo: the iframe it builds
embedVimeo(url) ==
    LET video  == split(pathname(url), "/")[2]
        suffixParams ==
            << <<StrAutoplay, <<"1">> >>, <<StrBackground, <<"1">> >>,
               <<StrLoop, <<"1">> >>, <<StrMuted, <<"1">> >> >>
        suffix == <<"?">> \o joinParams(suffixParams)
    IN  [tag    |-> "iframe",
         src    |-> StrVimeoBase \o video \o suffix,
         type   |-> Null,
         played |-> FALSE]

\* getVideoElement: the video element it builds (autoplay, loop, muted and
\* playsinline attributes always set); played records the play() call of
\* its canplay listener
getVideoElement(source) ==
    [tag    |-> "video",
     src    |-> source,
     type   |-> StrVideoType \o pop(split(source, ".")),
     played |-> FALSE]

\* the provider branch of loadVideoEmbed
selectEmbed(link) ==
    LET isYoutube == includes(link, StrYoutube) \/ includes(link, StrYoutuBeHost)
        isVimeo   == includes(link, StrVimeo)
    IN  IF isYoutube THEN embedYoutube(link)
        ELSE IF isVimeo THEN embedVimeo(link)
        ELSE getVideoElement(link)

\* loadVideoEmbed that sets the loaded flag as soon as the embed is inserted
loadVideoEmbedMarksLoaded(hero, link) ==
    IF hero.embedLoaded = BoolToString(TRUE) THEN hero
    ELSE IF ~IsUrl(link) THEN hero
    ELSE [hero EXCEPT !.embeds = <<selectEmbed(link)>> \o @,
                      !.embedLoaded = BoolToString(TRUE)]

\* loadVideoEmbed: returns when the loaded flag is the string true; new URL
\* throws on an unparseable link before anything is built; else the embed
\* is prepended to the block
loadVideoEmbed(hero, link) ==
    IF hero.embedLoaded = BoolToString(TRUE) THEN hero
    ELSE IF ~IsUrl(link) THEN hero
    ELSE [hero EXCEPT !.embeds = <<selectEmbed(link)>> \o @]

\* a callback that leaves the observer connected
afterTriggerStillObserving == "observing"

\* what the callback does with the observer once an entry intersects
afterTrigger == "disconnected"

\* a callback that loads the embed and then marks the block when reduced
\* motion is preferred
heroObserverCallbackBoth(hero, someIntersecting, prefersReducedMotion) ==
    IF ~someIntersecting THEN hero
    ELSE [loadVideoEmbed([hero EXCEPT !.observer = "disconnected"], hero.link)
             EXCEPT !.noVideo = prefersReducedMotion]

\* a callback that loads the embed whatever the preference is
heroObserverCallbackAlwaysLoads(hero, someIntersecting, prefersReducedMotion) ==
    IF ~someIntersecting THEN hero
    ELSE loadVideoEmbed([hero EXCEPT !.observer = "disconnected"], hero.link)

\* a callback that disconnects the observer on its first notification,
\* intersecting or not
heroObserverCallbackOneShot(hero, someIntersecting, prefersReducedMotion) ==
    LET h == [hero EXCEPT !.observer = afterTrigger]
    IN  IF ~someIntersecting THEN h
        ELSE IF ~prefersReducedMotion
             THEN loadVideoEmbed(h, h.link)
             ELSE [h EXCEPT !.noVideo = TRUE]

\* the IntersectionObserver callback of the video-hero block
heroObserverCallback(hero, someIntersecting, prefersReducedMotion) ==
    IF ~someIntersecting THEN hero
    ELSE LET h == [hero EXCEPT !.observer = afterTrigger]
         IN  IF ~prefersReducedMotion
             THEN loadVideoEmbed(h, h.link)
             ELSE [h EXCEPT !.noVideo = TRUE]

\* a load listener that flips the loaded flag instead of setting it
embedLoadListenerFlips(hero, k) ==
    [hero EXCEPT !.embedLoaded = BoolToString(@ # BoolToString(TRUE)),
                 !.embeds[k].played = (@ \/ hero.embeds[k].tag = "video")]

\* a load listener that starts playback and leaves the loaded flag alone
embedLoadListenerPlaysOnly(hero, k) ==
    [hero EXCEPT !.embeds[k].played = (@ \/ hero.embeds[k].tag = "video")]

\* the load listener of an iframe, the canplay listeners of a video element
embedLoadListener(hero, k) ==
    [hero EXCEPT !.embedLoaded = BoolToString(TRUE),
                 !.embeds[k].played = (@ \/ hero.embeds[k].tag = "video")]

\* decorate without the early return for a missing link
decorateVideoHeroNoGuard(link, h1Text, h2Text) ==
    [link |-> link, text |-> Null, embedLoaded |-> BoolToString(FALSE),
     overlay |-> TRUE, heading1 |-> h1Text, heading2 |-> h2Text,
     embeds |-> <<>>, noVideo |-> FALSE, observer |-> "observing"]

\* decorate of the video-hero block; link is block.querySelector('a')?.href
decorateVideoHero(link, h1Text, h2Text) ==
    IF link = Null
    THEN [link |-> link, text |-> StrVideoUrlRequired, embedLoaded |-> Null,
          overlay |-> FALSE, heading1 |-> FALSE, heading2 |-> FALSE,
          embeds |-> <<>>, noVideo |-> FALSE, observer |-> "none"]
    ELSE [link |-> link, text |-> Null, embedLoaded |-> BoolToString(FALSE),
          overlay |-> TRUE, heading1 |-> h1Text, heading2 |-> h2Text,
          embeds |-> <<>>, noVideo |-> FALSE, observer |-> "observing"]

(***************************************************************************)
(* teaser: pure functions                                                  *)
(***************************************************************************)
\* the letters String.prototype.toLowerCase changes
UpperCase ==
    <<"A","B","C","D","E","F","G","H","I","J","K","L","M">>
    \o <<"N","O","P","Q","R","S","T","U","V","W","X","Y","Z">>
\* and what it changes them to
LowerCase ==
    <<"a","b","c","d","e","f","g","h","i","j","k","l","m">>
    \o <<"n","o","p","q","r","s","t","u","v","w","x","y","z">>

\* String.prototype.toLowerCase
toLowerCase(s) ==
    [i \in 1..Len(s) |->
        IF \E k \in 1..Len(UpperCase) : UpperCase[k] = s[i]
        THEN LowerCase[CHOOSE k \in 1..Len(UpperCase) : UpperCase[k] = s[i]]
        ELSE s[i]]

\* String.prototype.endsWith
endsWith(s, m) == StartsWithAt(s, m, Len(s) - Len(m) + 1)

\* "?rel=0"
StrRel ==
    <<"?","r","e","l","=","0">>
\* "Unable to load content"
StrUnableToLoad ==
    <<"U","n","a","b","l","e"," ","t","o"," ","l","o","a","d"," ","c","o","n","t","e","n","t">>
\* "mov"
StrMov ==
    <<"m","o","v">>
\* "mp4"
StrMp4 ==
    <<"m","p","4">>
\* ['.mp4', '.webm', '.ogg', '.mov']
videoExtensions ==
    << <<".","m","p","4">>,
       <<".","w","e","b","m">>,
       <<".","o","g","g">>,
       <<".","m","o","v">> >>

\* isYouTubeUrl
isYouTubeUrl(url) == includes(url, StrYoutubeCom) \/ includes(url, StrYoutuBeHost)

\* getYouTubeVideoId: the same pattern as the carousel uses, Null for no match
getYouTubeVideoId(url) == matchVideoId(url)

\* createYouTubeEmbed of the teaser: the wrapper and the src of its iframe
teaserYouTubeEmbed(videoId) ==
    [kind |-> "iframe", src |-> StrEmbedBase \o videoId \o StrRel, type |-> Null]

\* isVideoFile
isVideoFile(url) ==
    \E e \in 1..Len(videoExtensions) : endsWith(toLowerCase(url), videoExtensions[e])

\* the type attribute createVideoElement writes for an extension
sourceType(extension) ==
    StrVideoType \o (IF extension = StrMov THEN StrMp4 ELSE extension)

\* createVideoElement: the wrapper, the src and the type of its source
createVideoElement(src) ==
    [kind |-> "video", src |-> src,
     type |-> sourceType(toLowerCase(pop(split(src, "."))))]

\* the wrapper processMedia builds around a picture
imageWrapper == [kind |-> "image", src |-> Null, type |-> Null]

\* processMedia returns null
noMedia == [kind |-> "none", src |-> Null, type |-> Null]

\* processMedia, given the id found in a YouTube link (Null: no YouTube
\* link, or no id in it)
processMediaWith(cell, videoId) ==
    IF videoId # Null THEN teaserYouTubeEmbed(videoId)
    ELSE IF cell.links # <<>> /\ isVideoFile(cell.links[1])
    THEN createVideoElement(cell.links[1])
    ELSE IF cell.picture THEN imageWrapper
    ELSE IF cell.img THEN imageWrapper
    ELSE noMedia

\* processMedia: cell.links[1] is the href of cell.querySelector('a')
processMedia(cell) ==
    processMediaWith(cell,
        IF cell.links # <<>> /\ isYouTubeUrl(cell.links[1])
        THEN getYouTubeVideoId(cell.links[1]) ELSE Null)

\* the text is not empty
NonEmpty(text) == text # Null

\* processContent: title and paragraphs hold the trimmed text content of the
\* heading and of the paragraphs without an anchor
processContent(cell) ==
    [title       |-> cell.title,
     description |-> SelectSeq(cell.paragraphs, NonEmpty),
     buttons     |-> cell.links]

\* the class of the button at position index (0-based) of the buttons
buttonClass(index) == IF index = 0 THEN "primary" ELSE "secondary"

\* a catch branch that appends the message to the authored rows
teaserErrorAppended ==
    [error |-> TRUE, logged |-> TRUE, message |-> StrUnableToLoad,
     authored |-> TRUE,
     container |-> FALSE, media |-> noMedia, title |-> Null,
     description |-> <<>>, buttons |-> <<>>]

\* the block after the catch branch of decorate: console.error, then
\* innerHTML replaced by the message paragraph; authored tells whether the
\* authored rows are still children of the block
teaserError ==
    [error |-> TRUE, logged |-> TRUE, message |-> StrUnableToLoad,
     authored |-> FALSE,
     container |-> FALSE, media |-> noMedia, title |-> Null,
     description |-> <<>>, buttons |-> <<>>]

\* the block after the try branch of decorate ran to its end
teaserContainer(mediaElement, content) ==
    [error |-> FALSE, logged |-> FALSE, message |-> Null,
     authored |-> FALSE,
     container |-> TRUE, media |-> mediaElement, title |-> content.title,
     description |-> content.description,
     buttons |-> [i \in 1..Len(content.buttons) |->
                     [href |-> content.buttons[i], class |-> buttonClass(i - 1)]]]

\* rows.length === 0
noRows(input) == input.rowCount = 0

\* cells.length < 2
tooFewCells(input) == Len(input.cells) < 2

\* decorate of the teaser block: input.rowCount is block.children.length,
\* input.cells the children of the first row
decorateTeaser(input) ==
    IF noRows(input) THEN teaserError
    ELSE IF tooFewCells(input) THEN teaserError
    ELSE teaserContainer(processMedia(input.cells[1]),
                         processContent(input.cells[2]))

(***************************************************************************)
(* Inputs                                                                  *)
(***************************************************************************)
\* "https://youtu.be/dQw4w9WgXcQ"
LinkYoutuBe ==
    <<"h","t","t","p","s",":","/","/","y","o","u","t","u",".","b","e","/","d","Q","w","4","w","9","W","g","X","c","Q">>
\* "https://www.youtube.com/watch?v=dQw4w9WgXcQ"
LinkWatch ==
    <<"h","t","t","p","s",":","/","/","w","w","w",".","y","o","u","t","u","b","e",".","c","o","m","/","w","a","t","c","h","?","v","=","d","Q","w","4","w","9","W","g","X","c","Q">>
\* "https://www.youtube.com/watch?v=a%20b"
LinkWatchEncoded ==
    <<"h","t","t","p","s",":","/","/","w","w","w",".","y","o","u","t","u","b","e",".","c","o","m","/","w","a","t","c","h","?","v","=","a","%","2","0","b">>
\* "https://www.youtube.com/channel"
LinkYoutubeNoId ==
    <<"h","t","t","p","s",":","/","/","w","w","w",".","y","o","u","t","u","b","e",".","c","o","m","/","c","h","a","n","n","e","l">>
\* "https://vimeo.com/76979871"
LinkVimeo ==
    <<"h","t","t","p","s",":","/","/","v","i","m","e","o",".","c","o","m","/","7","6","9","7","9","8","7","1">>
\* "https://example.com/media/clip.mp4"
LinkFile ==
    <<"h","t","t","p","s",":","/","/","e","x","a","m","p","l","e",".","c","o","m","/","m","e","d","i","a","/","c","l","i","p",".","m","p","4">>
\* "https://example.com/media/youtube-clip.mp4"
LinkFileMarker ==
    <<"h","t","t","p","s",":","/","/","e","x","a","m","p","l","e",".","c","o","m","/","m","e","d","i","a","/","y","o","u","t","u","b","e","-","c","l","i","p",".","m","p","4">>
\* "https://"
LinkUnparseable ==
    <<"h","t","t","p","s",":","/","/">>

\* the values block.querySelector('a')?.href takes
HeroLinks == {Null, LinkYoutuBe, LinkWatch, LinkWatchEncoded, LinkYoutubeNoId,
              LinkVimeo, LinkFile, LinkFileMarker, LinkUnparseable}

\* "https://example.com/media/CLIP.MOV"
LinkFileUpper ==
    <<"h","t","t","p","s",":","/","/","e","x","a","m","p","l","e",".","c","o","m","/","m","e","d","i","a","/","C","L","I","P",".","M","O","V">>
\* "Title"
TextTitle ==
    <<"T","i","t","l","e">>
\* "Text"
TextParagraph ==
    <<"T","e","x","t">>

\* a cell without content
EmptyCell ==
    [links |-> <<>>, picture |-> FALSE, img |-> FALSE, title |-> Null,
     paragraphs |-> <<>>]

\* the cells of a teaser row: empty, picture, bare img, YouTube link, YouTube
\* link without an id beside a picture, video file link, and a content cell
\* with heading, paragraphs (one of them empty) and two links
CellKinds ==
    {EmptyCell,
     [EmptyCell EXCEPT !.picture = TRUE, !.img = TRUE],
     [EmptyCell EXCEPT !.img = TRUE],
     [EmptyCell EXCEPT !.links = <<UrlVideoXYZ>>],
     [EmptyCell EXCEPT !.links = <<UrlVideoShort>>, !.picture = TRUE, !.img = TRUE],
     [EmptyCell EXCEPT !.links = <<LinkFileUpper>>],
     [EmptyCell EXCEPT !.links = <<LinkVimeo, LinkFile>>, !.title = TextTitle,
                       !.paragraphs = <<TextParagraph, Null>>]}

\* the authored teaser blocks: the number of rows and the cells of the first
\* row (decorate reads no other row)
TeaserInputs ==
    {[rowCount |-> 0, cells |-> <<>>]}
    \cup {[rowCount |-> n, cells |-> cells] :
              n \in 1..MaxTeaserRows,
              cells \in UNION {[1..k -> CellKinds] : k \in 0..MaxCells}}

\* the rendered output of a block decorate has not run on
Unrendered ==
    [error |-> FALSE, logged |-> FALSE, message |-> Null, authored |-> TRUE,
     container |-> FALSE, media |-> noMedia, title |-> Null, description |-> <<>>, buttons |-> <<>>]

(***************************************************************************)
(* State                                                                   *)
(***************************************************************************)
VARIABLES
    rows,           \* the authored rows the carousel was decorated from
    block,          \* the carousel block: slides, controls, dataset, observer
    calls,          \* the argument of the last scrollToSlide call, if any
    hero,           \* the video-hero block: content, dataset, embeds, observer
    reducedMotion,  \* prefersReducedMotion.matches, as the environment sets it
    teaser          \* the teaser block: authored input, phase, rendered output

vars == <<rows, block, calls, hero, reducedMotion, teaser>>

\* calls after one more scrollToSlide call
Remember(log, target) == <<target>>

\* one scrollToSlide call on the pair of block and call log
Call(st, target) ==
    [block |-> scrollToSlide(st.block, target),
     calls |-> Remember(st.calls, target)]

Length == Cardinality(DOMAIN block.slides)

(***************************************************************************)
(* image-carousel: events                                                  *)
(***************************************************************************)
Apply(st) ==
    /\ block' = st.block
    /\ calls' = st.calls
    /\ UNCHANGED <<rows, hero, reducedMotion, teaser>>

\* click on the prev button
PrevClick ==
    /\ block.navigation
    /\ LET currentIndex == parseInt(block.currentSlide)
       IN  Apply(Call([block |-> block, calls |-> calls], currentIndex - 1))

\* click on the next button
NextClick ==
    /\ block.navigation
    /\ LET currentIndex == parseInt(block.currentSlide)
       IN  Apply(Call([block |-> block, calls |-> calls], currentIndex + 1))

\* click on indicator i
IndicatorClick(i) ==
    /\ i \in DOMAIN block.indicators
    /\ Apply(Call([block |-> block, calls |-> calls], i))

\* a thumbnail click that scrolls to the position of the thumbnail among the
\* thumbnails
ThumbnailClickByPosition(p) ==
    /\ p \in DOMAIN block.thumbnails
    /\ Apply(Call([block |-> block, calls |-> calls], p))

\* click on the thumbnail at position p
ThumbnailClick(p) ==
    /\ p \in DOMAIN block.thumbnails
    /\ Apply(Call([block |-> block, calls |-> calls], block.thumbnails[p].index))

\* an observer callback that ignores what the observer reports
observerCallbackIgnores(st, entries) == st

RECURSIVE observerCallbackFrom(_, _, _)
\* a callback that compares every entry with one fixed index
observerCallbackFrom(st, entries, currentIndex) ==
    IF entries = <<>> THEN st
    ELSE observerCallbackFrom(
             IF Head(entries).isIntersecting /\ Head(entries).target # currentIndex
             THEN Call(st, Head(entries).target) ELSE st,
             Tail(entries), currentIndex)

\* a callback that reads currentSlide once, before its first entry
observerCallbackStale(st, entries) ==
    observerCallbackFrom(st, entries, parseInt(st.block.currentSlide))

RECURSIVE observerCallbackAlwaysScrolls(_, _)
\* a callback that scrolls to every intersecting slide, the current one too
observerCallbackAlwaysScrolls(st, entries) ==
    IF entries = <<>> THEN st
    ELSE observerCallbackAlwaysScrolls(
             IF Head(entries).isIntersecting
             THEN Call(st, Head(entries).target) ELSE st,
             Tail(entries))

RECURSIVE observerCallback(_, _)
\* the IntersectionObserver callback of the carousel, entry by entry;
\* target is the index of the observed slide among the slides
observerCallback(st, entries) ==
    IF entries = <<>> THEN st
    ELSE LET entry      == Head(entries)
             slideIndex == entry.target
             next ==
                 IF /\ entry.isIntersecting
                    /\ slideIndex # parseInt(st.block.currentSlide)
                 THEN Call(st, slideIndex)
                 ELSE st
         IN  observerCallback(next, Tail(entries))

\* the notifications the observer can deliver: one entry for each of up to
\* MaxEntries observed slides whose visibility crossed the threshold
EntryLists ==
    {entries \in UNION {[1..k -> [target : DOMAIN block.slides,
                                  isIntersecting : BOOLEAN]] : k \in 1..MaxEntries} :
        \A a, b \in DOMAIN entries : a # b => entries[a].target # entries[b].target}

\* the observer notifies the callback
ObserverNotify(entries) ==
    /\ block.observer
    /\ Apply(observerCallback([block |-> block, calls |-> calls], entries))

\* scrollToSlide called with an arbitrary argument
ScrollToSlideCall(target) ==
    /\ Length > 1
    /\ Apply(Call([block |-> block, calls |-> calls], target))

(***************************************************************************)
(* video-hero: events                                                      *)
(***************************************************************************)
\* notifications that keep arriving after the observer was disconnected
HeroObserverNotifyLate(someIntersecting) ==
    /\ hero.observer # "none"
    /\ hero' = heroObserverCallback(hero, someIntersecting, reducedMotion)
    /\ UNCHANGED <<rows, block, calls, reducedMotion, teaser>>

\* the observer of the video-hero block notifies its callback
HeroObserverNotify(someIntersecting) ==
    /\ hero.observer = "observing"
    /\ hero' = heroObserverCallback(hero, someIntersecting, reducedMotion)
    /\ UNCHANGED <<rows, block, calls, reducedMotion, teaser>>

\* the load event of an embedded iframe, the canplay event of a video
EmbedLoadEvent(k) ==
    /\ k \in DOMAIN hero.embeds
    /\ hero' = embedLoadListener(hero, k)
    /\ UNCHANGED <<rows, block, calls, reducedMotion, teaser>>

\* loadVideoEmbed called with the link of the block, whatever the observer
\* has reported
LoadVideoEmbedCall ==
    /\ hero.link # Null
    /\ Len(hero.embeds) < MaxEmbeds
    /\ hero' = loadVideoEmbed(hero, hero.link)
    /\ UNCHANGED <<rows, block, calls, reducedMotion, teaser>>

\* a block that listens to changes of the preference once it was triggered
MotionPreferenceChangeReacts ==
    /\ reducedMotion' = ~reducedMotion
    /\ hero' = IF hero.observer = "disconnected"
               THEN [hero EXCEPT !.noVideo = reducedMotion']
               ELSE hero
    /\ UNCHANGED <<rows, block, calls, teaser>>

\* the user changes the reduced-motion preference
MotionPreferenceChange ==
    /\ reducedMotion' = ~reducedMotion
    /\ UNCHANGED <<rows, block, calls, hero, teaser>>

(***************************************************************************)
(* teaser: events                                                          *)
(***************************************************************************)
\* decorate runs on the authored teaser block
DecorateTeaser ==
    /\ teaser.phase = "authored"
    /\ teaser' = [teaser EXCEPT !.phase = "decorated",
                                !.output = decorateTeaser(teaser.input)]
    /\ UNCHANGED <<rows, block, calls, hero, reducedMotion>>

(***************************************************************************)
(* Specifications                                                          *)
(***************************************************************************)
\* a page without a teaser block
NoTeaser ==
    teaser = [input |-> [rowCount |-> 0, cells |-> <<>>], phase |-> "none",
              output |-> Unrendered]

\* a page whose video-hero block has no link
NoHero ==
    /\ hero = decorateVideoHero(Null, FALSE, FALSE)
    /\ reducedMotion = FALSE

\* a page whose carousel block has no rows
NoCarousel ==
    /\ rows = [i \in {} |-> ImageRow]
    /\ block = decorate(rows)
    /\ calls = <<>>

\* the carousel right after decorate
Init ==
    /\ rows \in UNION {RowLists(n) : n \in 1..MaxSlides}
    /\ block = decorate(rows)
    /\ calls = <<>>
    /\ NoHero
    /\ NoTeaser

\* the events of a decorated carousel
Next ==
    \/ PrevClick
    \/ NextClick
    \/ \E i \in 0..(MaxSlides - 1) : IndicatorClick(i)
    \/ \E p \in 0..(MaxSlides - 1) : ThumbnailClick(p)
    \/ \E entries \in EntryLists : ObserverNotify(entries)

Spec == Init /\ [][Next]_vars

\* the carousel right after decorate, with rows whose video id holds a {
InitBrace ==
    /\ rows \in UNION {[0..(n - 1) -> BraceRowKinds] : n \in 1..MaxSlides}
    /\ block = decorate(rows)
    /\ calls = <<>>
    /\ NoHero
    /\ NoTeaser

SpecBrace == InitBrace /\ [][Next]_vars

\* the carousel with scrollToSlide also called directly
NextCall ==
    \/ Next
    \/ \E target \in (0 - MaxOver)..(MaxSlides - 1 + MaxOver) :
           /\ target <= Length - 1 + MaxOver
           /\ ScrollToSlideCall(target)

SpecCall == Init /\ [][NextCall]_vars

\* the video-hero block right after decorate
InitHero ==
    /\ NoCarousel
    /\ \E link \in HeroLinks, h1Text \in BOOLEAN, h2Text \in BOOLEAN :
           hero = decorateVideoHero(link, h1Text, h2Text)
    /\ reducedMotion \in BOOLEAN
    /\ NoTeaser

\* the events of a decorated video-hero block
NextHero ==
    \/ \E someIntersecting \in BOOLEAN : HeroObserverNotify(someIntersecting)
    \/ \E k \in 1..MaxEmbeds : EmbedLoadEvent(k)
    \/ MotionPreferenceChange

SpecHero == InitHero /\ [][NextHero]_vars

\* the video-hero block that eventually intersects the viewport and whose
\* embed eventually delivers its load or canplay event. The notification
\* with an intersecting entry is possible exactly while the observer is
\* connected and always disconnects it, so its weak fairness is the first
\* temporal conjunct.
SpecHeroFair ==
    /\ InitHero
    /\ [][NextHero]_vars
    /\ []<>(hero.observer # "observing")
    /\ WF_vars(\E k \in 1..MaxEmbeds : EmbedLoadEvent(k))

\* the video-hero block with loadVideoEmbed also called directly
NextLoad ==
    \/ NextHero
    \/ LoadVideoEmbedCall

SpecLoad == InitHero /\ [][NextLoad]_vars

\* an authored teaser block before decorate
InitTeaser ==
    /\ NoCarousel
    /\ NoHero
    /\ \E input \in TeaserInputs :
           teaser = [input |-> input, phase |-> "authored", output |-> Unrendered]

\* the one event of a teaser block
NextTeaser == DecorateTeaser

SpecTeaser == InitTeaser /\ [][NextTeaser]_vars

(***************************************************************************)
(* Properties                                                              *)
(***************************************************************************)
\* the indexes of the slides of block b that carry the active class
ActiveSlides(b) == {i \in DOMAIN b.slides : b.slides[i].active}

\* the positions of the indicators of block b that carry the active class
ActiveIndicators(b) == {i \in DOMAIN b.indicators : b.indicators[i].active}

\* the positions of the thumbnails of block b that carry the active class
ActiveThumbnails(b) == {i \in DOMAIN b.thumbnails : b.thumbnails[i].active}

\* ((t % n) + n) % n
Modulo(t, n) == ((t % n) + n) % n

\* C1 as stated: after scrollToSlide(targetIndex) on a carousel of more than one
\* slide exactly one slide is active, and its index is
\* ((targetIndex % length) + length) % length, for every integer targetIndex.
C1_ModuloEverywhere ==
    (Length > 1 /\ calls # <<>>) =>
        ActiveSlides(block) = {Modulo(calls[1], Length)}

\* C1 amended: after scrollToSlide(targetIndex) exactly one slide is active for
\* every integer targetIndex; its index is ((targetIndex % length) + length) %
\* length when -1 <= targetIndex <= length, length - 1 for every smaller
\* targetIndex and 0 for every larger one.
C1_WrapToEnds ==
    (Length > 1 /\ calls # <<>>) =>
        /\ Cardinality(ActiveSlides(block)) = 1
        /\ (calls[1] \in (0 - 1)..Length =>
                ActiveSlides(block) = {Modulo(calls[1], Length)})
        /\ (calls[1] < 0 - 1 => ActiveSlides(block) = {Length - 1})
        /\ (calls[1] > Length => ActiveSlides(block) = {0})

\* a call with an argument below -1 has made the last slide active
C1_Witness ==
    /\ Length = 3
    /\ calls = <<0 - 2>>
    /\ ActiveSlides(block) = {2}

\* C2: in every state of a multi-slide carousel, from the one right after
\* decorate on, exactly one indicator and exactly one thumbnail are active, at
\* the index of the one active slide.
C2_MarkersAgree ==
    Length > 1 =>
        \E i \in DOMAIN block.slides :
            /\ ActiveSlides(block) = {i}
            /\ ActiveIndicators(block) = {i}
            /\ ActiveThumbnails(block) = {i}

\* C3: in every state of a carousel with at least one slide exactly one slide
\* is active, and the stored currentSlide, when set, is the decimal form of an
\* integer in [0, length).
C3_OneActiveSlide ==
    Length >= 1 =>
        /\ Cardinality(ActiveSlides(block)) = 1
        /\ (block.currentSlide # Null =>
                /\ parseInt(block.currentSlide) \in 0..(Length - 1)
                /\ IntToString(parseInt(block.currentSlide)) = block.currentSlide)

\* a transition has moved a three-slide carousel to its last slide
C3_Witness ==
    /\ Length = 3
    /\ calls # <<>>
    /\ block.currentSlide = <<"2">>
    /\ ActiveSlides(block) = {2}

\* C6: a scrollToSlide call that follows a scrollToSlide call and ends at the
\* same index leaves the whole block as it was: slides and their active
\* classes, the src of every embed, indicators, thumbnails and currentSlide.
C6_Idempotent ==
    [][(/\ calls # <<>>
        /\ calls' # <<>>
        /\ block'.currentSlide = block.currentSlide) => block' = block]_vars

\* a call with the overflowing argument 3 has made video slide 0 active and
\* its embed autoplaying, and a call with argument 0 can follow and leaves the
\* block as it is
C6_Witness ==
    /\ Length = 3
    /\ calls = <<3>>
    /\ ActiveSlides(block) = {0}
    /\ block.slides[0].videoSlide
    /\ IsAutoplay(block.slides[0].iframeSrc)
    /\ ENABLED (ScrollToSlideCall(0) /\ block' = block)

\* C7: a carousel of exactly one slide has no navigation, no indicators, no
\* thumbnails and no observer, scrollToSlide is never called, and slide 0 is
\* the one active slide.
C7_SingleSlide ==
    Length = 1 =>
        /\ ~block.navigation
        /\ DOMAIN block.indicators = {}
        /\ DOMAIN block.thumbnails = {}
        /\ ~block.observer
        /\ block.currentSlide = Null
        /\ calls = <<>>
        /\ ActiveSlides(block) = {0}
        /\ ~ENABLED Next

\* a carousel whose only slide is a video slide
C7_Witness ==
    /\ Length = 1
    /\ block.slides[0].videoSlide
    /\ ActiveSlides(block) = {0}

\* the rows [Image A, Video(id=XYZ12345678), Image B]
Scenario == [i \in 0..2 |-> IF i = 1 THEN VideoRow ELSE ImageRow]

\* slides 0 and 2 of block b hold no iframe
NoEmbedAtImages(b) ==
    b.slides[0].iframeSrc = Null /\ b.slides[2].iframeSrc = Null

\* the step is scrollToSlide(-1) taken at index 0
FirstScenarioCall ==
    /\ rows = Scenario
    /\ block.currentSlide = <<"0">>
    /\ calls # <<0 - 1>>
    /\ calls' = <<0 - 1>>

\* the step is scrollToSlide(4) taken where scrollToSlide(-1) ended
SecondScenarioCall ==
    /\ rows = Scenario
    /\ calls = <<0 - 1>>
    /\ ActiveSlides(block) = {2}
    /\ calls' = <<4>>

\* C8 as stated: on [Image A, Video(XYZ12345678), Image B] at index 0,
\* scrollToSlide(-1) makes slide 2 active; scrollToSlide(4) from there makes
\* slide 1 active with an autoplaying embed, slides 0 and 2 holding no embed.
C8_ScenarioEndsAtVideo ==
    [][/\ FirstScenarioCall => ActiveSlides(block') = {2}
       /\ SecondScenarioCall =>
              /\ ActiveSlides(block') = {1}
              /\ IsAutoplay(block'.slides[1].iframeSrc)
              /\ NoEmbedAtImages(block')]_vars

\* C8 amended: on [Image A, Video(XYZ12345678), Image B] at index 0,
\* scrollToSlide(-1) makes slide 2 active; scrollToSlide(4) from there makes
\* slide 0 active, the embed of slide 1 is the non-autoplaying variant for the
\* same video, and slides 0 and 2 hold no embed.
C8_ScenarioEndsAtFirst ==
    [][/\ FirstScenarioCall => ActiveSlides(block') = {2}
       /\ SecondScenarioCall =>
              /\ ActiveSlides(block') = {0}
              /\ block'.slides[1].iframeSrc = createYouTubeEmbed(UrlVideoXYZ, FALSE)
              /\ ~IsAutoplay(block'.slides[1].iframeSrc)
              /\ NoEmbedAtImages(block')]_vars

\* scrollToSlide(4) has acted on the scenario carousel
C8_Witness ==
    /\ rows = Scenario
    /\ calls = <<4>>
    /\ ActiveSlides(block) = {0}

\* C4: whatever notifications arrive, a video-hero block holds at most one
\* embed (iframe or video element).
C4_AtMostOneEmbed == Len(hero.embeds) <= 1

\* the embed is built and its load event has not been handled
C4_Witness ==
    /\ Len(hero.embeds) = 1
    /\ hero.embedLoaded = BoolToString(FALSE)
    /\ hero.observer = "disconnected"

\* C5: when the step that handles the first intersecting notification finds
\* the reduced-motion preference set, the block gets the no-video class and no
\* embed, and a block with the no-video class keeps it and never holds an embed.
C5_ReducedMotionNoEmbed ==
    /\ [][(/\ hero.observer = "observing"
           /\ hero'.observer # "observing"
           /\ reducedMotion) => (hero'.noVideo /\ hero'.embeds = <<>>)]_vars
    /\ [][hero.noVideo => (hero'.noVideo /\ hero'.embeds = <<>>)]_vars

\* the trigger found the preference set, and the preference was cleared later
C5_Witness ==
    /\ hero.noVideo
    /\ hero.observer = "disconnected"
    /\ ~reducedMotion
    /\ hero.embeds = <<>>

\* "dQw4w9WgXcQ"
IdDQ ==
    <<"d","Q","w","4","w","9","W","g","X","c","Q">>

\* the characters of a YouTube video id: letters, digits, - and _
VideoIdChars ==
    {"a", "b", "c", "d", "e", "f", "g", "h", "i", "j", "k", "l", "m",
     "n", "o", "p", "q", "r", "s", "t", "u", "v", "w", "x", "y", "z",
     "A", "B", "C", "D", "E", "F", "G", "H", "I", "J", "K", "L", "M",
     "N", "O", "P", "Q", "R", "S", "T", "U", "V", "W", "X", "Y", "Z",
     "0", "1", "2", "3", "4", "5", "6", "7", "8", "9", "-", "_"}

\* the id a YouTube link names: the first path segment of a youtu.be link,
\* the v parameter of any other
LinkVideoId(link) ==
    IF includes(origin(link), StrYoutuBeHost)
    THEN split(pathname(link), "/")[2]
    ELSE searchParamsGet(search(link), <<"v">>)

\* the link is a youtu.be/<id> or watch?v=<id> link that names a video id
NamesVideoId(link) ==
    /\ IsUrl(link)
    /\ includes(link, StrYoutube) \/ includes(link, StrYoutuBeHost)
    /\ LinkVideoId(link) # Null
    /\ \A k \in 1..Len(LinkVideoId(link)) : LinkVideoId(link)[k] \in VideoIdChars

\* the value of parameter name in the query of an embed src
SrcParam(src, name) == searchParamsGet(search(src), name)

C10_NoLinkIsTerminal ==
    hero.link = Null =>
        /\ hero.text = StrVideoUrlRequired
        /\ hero.observer = "none"
        /\ hero.embeds = <<>>
        /\ hero.embedLoaded # BoolToString(TRUE)
        /\ ~hero.noVideo
        /\ ~hero.overlay

\* a block without a link, after the preference changed
C10_Witness ==
    /\ hero.link = Null
    /\ hero.text = StrVideoUrlRequired
    /\ reducedMotion

\* C11: a multi-slide carousel has as many indicators as slides and as many
\* thumbnails as slides, whatever its rows hold.
C11_CountsEqualLength ==
    Length > 1 =>
        /\ Cardinality(DOMAIN block.indicators) = Length
        /\ Cardinality(DOMAIN block.thumbnails) = Length

\* C12: a loadVideoEmbed call made while the block holds an embed whose load
\* event is not handled yet builds no second embed.
C12_NoSecondEmbedInFlight ==
    [][(/\ Len(hero.embeds) >= 1
        /\ hero.embedLoaded # BoolToString(TRUE))
           => Len(hero'.embeds) = Len(hero.embeds)]_vars

\* C13: the loaded flag of a block with a link is false while the block holds
\* no embed, is still false right after the step that inserts the embed, and
\* changes only from false to true, in a step that handles the load event of
\* an embed (iframe load, video canplay).
C13_LoadedOnlyOnLoadEvent ==
    /\ []((hero.link # Null /\ hero.embeds = <<>>)
              => hero.embedLoaded = BoolToString(FALSE))
    /\ [][Len(hero'.embeds) > Len(hero.embeds)
              => hero'.embedLoaded = BoolToString(FALSE)]_vars
    /\ [][hero'.embedLoaded # hero.embedLoaded
              => /\ hero.embedLoaded = BoolToString(FALSE)
                 /\ hero'.embedLoaded = BoolToString(TRUE)
                 /\ \E k \in DOMAIN hero.embeds :
                        hero' = embedLoadListener(hero, k)]_vars

\* a video element is inserted and its canplay event has not been handled
C13_Witness ==
    /\ Len(hero.embeds) = 1
    /\ hero.embeds[1].tag = "video"
    /\ ~hero.embeds[1].played
    /\ hero.embedLoaded = BoolToString(FALSE)

\* C14: the loaded flag of a video-hero block only ever changes from false to
\* true, and once it is true it is true in every later state.
C14_LoadedIsIrreversible ==
    /\ [][hero.embedLoaded = BoolToString(TRUE)
              => hero'.embedLoaded = BoolToString(TRUE)]_vars
    /\ [][hero'.embedLoaded # hero.embedLoaded
              => /\ hero.embedLoaded = BoolToString(FALSE)
                 /\ hero'.embedLoaded = BoolToString(TRUE)]_vars

\* the load event of the iframe was handled, and the preference changed after
C14_Witness ==
    /\ hero.embedLoaded = BoolToString(TRUE)
    /\ Len(hero.embeds) >= 1
    /\ hero.embeds[1].tag = "iframe"
    /\ reducedMotion

\* C15: the step that handles the first notification with an intersecting
\* entry disconnects the observer; a notification without an intersecting
\* entry changes nothing and leaves the observer connected; once the observer
\* is disconnected no notification is delivered, it stays disconnected, and
\* no later step builds an embed or adds the no-video class.
C15_TriggerAtMostOnce ==
    /\ [][(\E someIntersecting \in BOOLEAN : HeroObserverNotify(someIntersecting))
              => \/ hero' = hero /\ hero'.observer = "observing"
                 \/ hero'.observer = "disconnected"]_vars
    /\ [][HeroObserverNotify(TRUE) => hero'.observer = "disconnected"]_vars
    /\ [][HeroObserverNotify(FALSE) => hero' = hero]_vars
    /\ [](hero.observer = "disconnected"
              => ~ENABLED (\E someIntersecting \in BOOLEAN :
                               HeroObserverNotify(someIntersecting)))
    /\ [][hero.observer = "disconnected"
              => /\ hero'.observer = "disconnected"
                 /\ Len(hero'.embeds) = Len(hero.embeds)
                 /\ hero'.noVideo = hero.noVideo]_vars

\* the trigger was handled, the embed was built and its load event handled
C15_Witness ==
    /\ hero.observer = "disconnected"
    /\ Len(hero.embeds) = 1
    /\ hero.embedLoaded = BoolToString(TRUE)
    /\ ~hero.noVideo

\* the index the last scrollToSlide argument stands for: length - 1 for a
\* negative argument, 0 for one at or past length, the argument otherwise
WrappedLastCall ==
    IF calls[1] < 0 THEN Length - 1
    ELSE IF calls[1] >= Length THEN 0
    ELSE calls[1]

\* C16: after scrollToSlide(targetIndex) the active slide and currentSlide
\* are length - 1 when targetIndex < 0, 0 when targetIndex >= length, and
\* targetIndex otherwise; a click on prev at index 0 makes the last slide
\* active and a click on next at the last index makes slide 0 active.
C16_WrapAtEnds ==
    /\ []((Length > 1 /\ calls # <<>>)
              => /\ ActiveSlides(block) = {WrappedLastCall}
                 /\ block.currentSlide = IntToString(WrappedLastCall))
    /\ [][(PrevClick /\ block.currentSlide = IntToString(0))
              => ActiveSlides(block') = {Length - 1}]_vars
    /\ [][(NextClick /\ block.currentSlide = IntToString(Length - 1))
              => ActiveSlides(block') = {0}]_vars

\* prev was clicked at index 0 of a three-slide carousel
C16_Witness ==
    /\ Length = 3
    /\ calls = <<0 - 1>>
    /\ block.currentSlide = <<"2">>
    /\ ActiveSlides(block) = {2}
    /\ ActiveIndicators(block) = {2}

\* C17: after a transition every video slide other than the active one holds
\* a non-autoplaying embed, and the active slide holds an autoplaying embed
\* exactly when it is a video slide; so an autoplaying embed is found at
\* currentSlide only.
C17_AutoplayOnlyAtActive ==
    (Length > 1 /\ calls # <<>>) =>
        \A i \in DOMAIN block.slides :
            IF i = parseInt(block.currentSlide)
            THEN IsAutoplay(block.slides[i].iframeSrc) <=> block.slides[i].videoSlide
            ELSE /\ ~IsAutoplay(block.slides[i].iframeSrc)
                 /\ block.slides[i].videoSlide => block.slides[i].iframeSrc # Null

\* the notifications in which exactly one entry is intersecting and that
\* entry is for a slide other than the current one
OneNewSlide ==
    {entries \in EntryLists :
        \E a \in DOMAIN entries :
            /\ entries[a].isIntersecting
            /\ entries[a].target # parseInt(block.currentSlide)
            /\ \A b \in DOMAIN entries : entries[b].isIntersecting => b = a}

\* the slide the one intersecting entry of a notification is for
NewSlide(entries) ==
    entries[CHOOSE a \in DOMAIN entries : entries[a].isIntersecting].target

\* block b is what scrollToSlide(index) makes of block from: that slide is the
\* one active slide, currentSlide and the active indicator are at its index
SyncedTo(b, from, index) ==
    /\ b = scrollToSlide(from, index)
    /\ ActiveSlides(b) = {index}
    /\ b.currentSlide = IntToString(index)
    /\ ActiveIndicators(b) = {index}

BrokenRows ==
    {i \in DOMAIN rows :
        hasYouTubeLink(rows[i]) /\ createYouTubeEmbed(rows[i].href, FALSE) = Null}

\* C19: a row whose YouTube link has no parseable id is a slide at its own
\* index that is never a video slide and never holds an embed or a picture;
\* the carousel has one slide per row, every other row has its embed or
\* picture, navigation, observer and one indicator per slide are built, and
\* a click on its indicator makes the empty slide the one active slide.
C19_BrokenLinkIsEmptySlide ==
    /\ DOMAIN block.slides = DOMAIN rows
    /\ \A i \in BrokenRows :
           /\ ~block.slides[i].videoSlide
           /\ block.slides[i].iframeSrc = Null
           /\ ~block.slides[i].picture
           /\ Length > 1 =>
                  /\ block.navigation
                  /\ block.observer
                  /\ DOMAIN block.indicators = DOMAIN rows
                  /\ ENABLED (IndicatorClick(i) /\ ActiveSlides(block') = {i})
    /\ \A j \in DOMAIN rows \ BrokenRows :
           /\ hasYouTubeLink(rows[j]) =>
                  (block.slides[j].videoSlide /\ block.slides[j].iframeSrc # Null)
           /\ ~hasYouTubeLink(rows[j]) => block.slides[j].picture = rows[j].img
           /\ Length > 1 => \E p \in DOMAIN block.thumbnails :
                                block.thumbnails[p].index = j

\* the slide of a row with an unparseable link is the active slide, between
\* an image slide and a video slide
C19_Witness ==
    /\ Length = 3
    /\ BrokenRows = {1}
    /\ ActiveSlides(block) = {1}
    /\ block.currentSlide = <<"1">>
    /\ block.slides[0].picture
    /\ block.slides[2].videoSlide

\* the link carries the YouTube marker and names no video id
MalformedYoutubeLink(link) ==
    /\ IsUrl(link)
    /\ includes(link, StrYoutube) \/ includes(link, StrYoutuBeHost)
    /\ LinkVideoId(link) = Null

\* C20: for a link with a provider marker that is malformed for the provider
\* (a YouTube link without a video id) the embed built is a native video
\* element for the link, not a provider iframe.
C20_MalformedFallsBackToFile ==
    \A k \in DOMAIN hero.embeds :
        MalformedYoutubeLink(hero.link) =>
            /\ hero.embeds[k].tag = "video"
            /\ hero.embeds[k].src = hero.link

\* the host part of the link holds the marker
HostHas(link, marker) == includes(origin(link), marker)

\* C21: the provider follows the host of the link: a YouTube iframe exactly
\* when the host holds a YouTube marker, else a Vimeo iframe exactly when the
\* host holds the Vimeo marker, else the native video element; a marker in the
\* path of a direct file link selects no provider iframe.
C21_ProviderByHost ==
    \A k \in DOMAIN hero.embeds :
        IF HostHas(hero.link, StrYoutube) \/ HostHas(hero.link, StrYoutuBeHost)
        THEN /\ hero.embeds[k].tag = "iframe"
             /\ origin(hero.embeds[k].src) = StrYoutubeOrigin
        ELSE IF HostHas(hero.link, StrVimeo)
        THEN /\ hero.embeds[k].tag = "iframe"
             /\ StartsWithAt(hero.embeds[k].src, StrVimeoBase, 1)
        ELSE /\ hero.embeds[k].tag = "video"
             /\ hero.embeds[k].src = hero.link

\* the authored teaser block has no rows, or a first row of fewer than two cells
InvalidTeaser ==
    teaser.input.rowCount = 0 \/ Len(teaser.input.cells) < 2

\* C22: once decorate has run on a teaser block without rows, or whose first
\* row has fewer than two cells, the block holds the message Unable to load
\* content and nothing else: the authored rows are gone, there is no teaser
\* container, media, title, description or button, the failure was logged,
\* and decorate does not run again.
C22_InvalidTeaserShowsMessage ==
    (teaser.phase = "decorated" /\ InvalidTeaser) =>
        /\ teaser.output.error
        /\ teaser.output.logged
        /\ teaser.output.message = StrUnableToLoad
        /\ ~teaser.output.authored
        /\ ~teaser.output.container
        /\ teaser.output.media = noMedia
        /\ teaser.output.title = Null
        /\ teaser.output.description = <<>>
        /\ teaser.output.buttons = <<>>
        /\ ~ENABLED NextTeaser

\* decorate has run on a block whose first row holds one cell, a picture
C22_Witness ==
    /\ teaser.phase = "decorated"
    /\ teaser.input.rowCount = 1
    /\ Len(teaser.input.cells) = 1
    /\ teaser.input.cells[1].picture
    /\ teaser.output.message = StrUnableToLoad

\* C23: in every state of a multi-slide carousel the slide at the stored
\* currentSlide is the one slide marked active.
C23_CurrentIsActive ==
    Length > 1 => ActiveSlides(block) = {parseInt(block.currentSlide)}

\* clicks and notifications have brought a two-slide carousel back to slide 0
C23_Witness ==
    /\ Length = 2
    /\ calls = <<2>>
    /\ block.currentSlide = <<"0">>
    /\ ActiveSlides(block) = {0}

\* the kind of a slide: video (video-slide class), image (holds a picture),
\* or empty
SlideKind(slide) ==
    IF slide.videoSlide THEN "video"
    ELSE IF slide.picture THEN "image"
    ELSE "empty"

\* C24: in every state the carousel has one slide per authored row, in row
\* order, each of the kind decorate gave it; a video slide always holds an
\* embed, and no other slide ever holds one.
C24_SlidesAreFixed ==
    /\ DOMAIN block.slides = DOMAIN rows
    /\ \A i \in DOMAIN rows :
           /\ SlideKind(block.slides[i]) = SlideKind(createSlide(rows[i], i))
           /\ block.slides[i].picture = createSlide(rows[i], i).picture
           /\ (block.slides[i].iframeSrc # Null) = block.slides[i].videoSlide

\* after a transition to its image slide, a carousel still holds the video
\* slide whose embed cannot be rebuilt, the empty slide and the image slide
C24_Witness ==
    /\ Length = 3
    /\ calls # <<>>
    /\ {SlideKind(block.slides[i]) : i \in DOMAIN block.slides}
           = {"video", "image", "empty"}
    /\ \E i \in DOMAIN rows : rows[i] = VideoHashRow
    /\ \E i \in ActiveSlides(block) : block.slides[i].picture

\* the block holds an embed whose load event has not been handled
InLimbo ==
    /\ Len(hero.embeds) = 1
    /\ hero.embedLoaded = BoolToString(FALSE)

\* C25: while the block holds an embed whose load or canplay event has not
\* been handled, every step other than the handling of that event leaves the
\* block as it is (one embed, loaded flag false), and no notification of the
\* observer can arrive: no retry, no timeout, no second embed.
C25_StalledLoadStaysInLimbo ==
    /\ [][(InLimbo /\ ~(\E k \in DOMAIN hero.embeds : EmbedLoadEvent(k)))
              => hero' = hero]_vars
    /\ [](InLimbo =>
              ~ENABLED (\E someIntersecting \in BOOLEAN :
                            HeroObserverNotify(someIntersecting)))

\* the embed was built without reduced motion, its load event has not been
\* handled, and the preference was set since
C25_Witness ==
    /\ InLimbo
    /\ reducedMotion
    /\ hero.observer = "disconnected"
    /\ ~hero.noVideo

\* C26: the branch of the first intersecting notification is chosen by the
\* preference at that moment, whatever it was at decoration: without reduced
\* motion loadVideoEmbed runs (an embed is built when the link parses as a
\* URL) and no-video is not set; with reduced motion no-video is set and no
\* embed is built; a change of the preference never changes the block.
C26_PreferenceSampledAtTrigger ==
    /\ [][(HeroObserverNotify(TRUE) /\ ~reducedMotion)
              => /\ hero' = loadVideoEmbed([hero EXCEPT !.observer = "disconnected"],
                                           hero.link)
                 /\ ~hero'.noVideo
                 /\ (IsUrl(hero.link) => Len(hero'.embeds) = 1)]_vars
    /\ [][(HeroObserverNotify(TRUE) /\ reducedMotion)
              => /\ hero'.noVideo
                 /\ hero'.embeds = <<>>]_vars
    /\ [][reducedMotion' # reducedMotion => hero' = hero]_vars

\* the block took the no-video branch and the preference was cleared since
C26_Witness ==
    /\ hero.noVideo
    /\ hero.embeds = <<>>
    /\ hero.observer = "disconnected"
    /\ ~reducedMotion

\* C27: when the block eventually intersects the viewport and the load or
\* canplay event of a built embed is eventually delivered, a block whose link
\* is a URL eventually has its loaded flag true unless the trigger found
\* reduced motion preferred (no-video set), and a block holding an embed whose
\* event is outstanding eventually has its loaded flag true.
C27_LoadedEventually ==
    /\ [][HeroObserverNotify(TRUE)
              <=> (hero.observer = "observing" /\ hero'.observer # "observing")]_vars
    /\ (hero.link # Null /\ IsUrl(hero.link))
           => <>(hero.noVideo \/ hero.embedLoaded = BoolToString(TRUE))
    /\ InLimbo ~> (hero.embedLoaded = BoolToString(TRUE))

\* the flag became true on a block triggered without reduced motion
C27_Witness ==
    /\ hero.embedLoaded = BoolToString(TRUE)
    /\ Len(hero.embeds) = 1
    /\ ~hero.noVideo
    /\ ~reducedMotion
    /\ hero.observer = "disconnected"

\* C28: a video-hero block never carries both the no-video class and an
\* embed; the class or the embed appears only on the step that disconnects
\* the observer, that step brings at most one of the two, and afterwards the
\* class and the number of embeds stay as they are.
C28_NoVideoExcludesEmbed ==
    /\ [](~(hero.noVideo /\ hero.embeds # <<>>))
    /\ [][(hero'.noVideo # hero.noVideo \/ Len(hero'.embeds) # Len(hero.embeds))
              => /\ HeroObserverNotify(TRUE)
                 /\ hero.observer = "observing"
                 /\ hero'.observer = "disconnected"
                 /\ hero'.noVideo # (hero'.embeds # <<>>)]_vars
    /\ [][hero.observer = "disconnected"
              => /\ hero'.noVideo = hero.noVideo
                 /\ Len(hero'.embeds) = Len(hero.embeds)]_vars

\* the block took the no-video branch while reduced motion is preferred
C28_Witness ==
    /\ hero.noVideo
    /\ hero.embeds = <<>>
    /\ hero.observer = "disconnected"
    /\ reducedMotion
    /\ IsUrl(hero.link)

\* the slides of block b whose embed is of the autoplaying variant
AutoplayingSlides(b) ==
    {i \in DOMAIN b.slides : IsAutoplay(b.slides[i].iframeSrc)}

\* C29: until the first scrollToSlide no embed of the carousel is of the
\* autoplaying variant, also when slide 0 is a video slide; an embed becomes
\* autoplaying only on a step that runs scrollToSlide and leaves its slide
\* active.
C29_NoAutoplayBeforeTransition ==
    /\ [](calls = <<>> => AutoplayingSlides(block) = {})
    /\ [][\A i \in AutoplayingSlides(block') \ AutoplayingSlides(block) :
              /\ calls' # <<>>
              /\ block'.slides[i].active
              /\ block' = scrollToSlide(block, calls'[1])]_vars

\* slide 0 is a video slide that decorate left active and not autoplaying,
\* and a transition back to it has made its embed autoplaying
C29_Witness ==
    /\ Length > 1
    /\ decorate(rows).slides[0].videoSlide
    /\ decorate(rows).slides[0].active
    /\ ~IsAutoplay(decorate(rows).slides[0].iframeSrc)
    /\ calls # <<>>
    /\ block.slides[0].active
    /\ IsAutoplay(block.slides[0].iframeSrc)

\* the positions of the indicators of block b whose aria-selected is true
SelectedIndicators(b) ==
    {i \in DOMAIN b.indicators : b.indicators[i].ariaSelected = BoolToString(TRUE)}

\* C30: in every state of a carousel of more than one slide, the initial one
\* included, exactly one indicator has aria-selected true, the one at
\* currentSlide, and every other indicator has aria-selected false; once
\* scrollToSlide has run, the indicators with aria-selected true are those
\* with the active class.
C30_OneSelectedIndicator ==
    Length > 1 =>
        /\ DOMAIN block.indicators = DOMAIN block.slides
        /\ SelectedIndicators(block) = {parseInt(block.currentSlide)}
        /\ \A i \in DOMAIN block.indicators :
               block.indicators[i].ariaSelected \in {BoolToString(TRUE), BoolToString(FALSE)}
        /\ (calls # <<>> => SelectedIndicators(block) = ActiveIndicators(block))

\* a transition has moved a three-slide carousel to slide 1: its indicator is
\* the one selected, and the one active
C30_Witness ==
    /\ Length = 3
    /\ calls # <<>>
    /\ block.currentSlide = <<"1">>
    /\ SelectedIndicators(block) = {1}
    /\ ActiveIndicators(block) = {1}

\* the notification holds no intersecting entry other than entries for the
\* slide at currentSlide
NothingNew(entries) ==
    \A k \in DOMAIN entries :
        entries[k].isIntersecting =>
            entries[k].target = parseInt(block.currentSlide)

\* C31: a notification of the carousel observer none of whose entries is
\* intersecting, or whose intersecting entries are all for the slide at
\* currentSlide, leaves the block as it is (slides, active classes, the src
\* of every embed, indicators, thumbnails, currentSlide) and calls
\* scrollToSlide not at all, so no embed is rebuilt.
C31_NothingNewChangesNothing ==
    block.observer =>
        \A entries \in EntryLists :
            NothingNew(entries) =>
                observerCallback([block |-> block, calls |-> calls], entries)
                    = [block |-> block, calls |-> calls]

\* a three-slide carousel whose active slide is an autoplaying video slide,
\* where notifications for that slide can arrive
C31_Witness ==
    /\ Length = 3
    /\ block.observer
    /\ calls # <<>>
    /\ block.slides[parseInt(block.currentSlide)].videoSlide
    /\ IsAutoplay(block.slides[parseInt(block.currentSlide)].iframeSrc)
    /\ \E entries \in EntryLists :
           /\ NothingNew(entries)
           /\ \E k \in DOMAIN entries : entries[k].isIntersecting
           /\ ENABLED ObserverNotify(entries)

\* the target of the last intersecting entry of a notification that has one
LastIntersecting(entries) ==
    LET hits == {k \in DOMAIN entries : entries[k].isIntersecting}
    IN  entries[CHOOSE k \in hits : \A j \in hits : j <= k].target

\* the block the callback leaves when it handles entries in the current state
AfterNotification(entries) ==
    observerCallback([block |-> block, calls |-> calls], entries).block

\* C32: whatever the state of a carousel with an observer, and whatever
\* notification arrives with at least one intersecting entry, after the
\* callback currentSlide is the index of the last intersecting entry, that
\* slide is the one active slide, and the indicators follow it.
C32_LastIntersectingWins ==
    block.observer =>
        \A entries \in EntryLists :
            (\E k \in DOMAIN entries : entries[k].isIntersecting) =>
                LET after == AfterNotification(entries)
                    last  == LastIntersecting(entries)
                IN  /\ after.currentSlide = IntToString(last)
                    /\ ActiveSlides(after) = {last}
                    /\ ActiveIndicators(after) \in {{}, {last}}

\* slide 1, then slide 0
BackAndForth ==
    <<[target |-> 1, isIntersecting |-> TRUE],
      [target |-> 0, isIntersecting |-> TRUE]>>

\* a three-slide carousel whose first notification reported slide 1 and then
\* slide 0: both were applied, and the block is on slide 0 again
C32_Witness ==
    /\ Length = 3
    /\ calls = <<0>>
    /\ block = observerCallback([block |-> decorate(rows), calls |-> <<>>],
                                BackAndForth).block
    /\ ActiveSlides(block) = {0}
    /\ ActiveIndicators(block) = {0}

\* the block after a click on the next button
AfterNext(b) == scrollToSlide(b, parseInt(b.currentSlide) + 1)

\* the block after a click on the prev button
AfterPrev(b) == scrollToSlide(b, parseInt(b.currentSlide) - 1)

RECURSIVE AfterNexts(_, _)
\* the block after k clicks on the next button
AfterNexts(b, k) == IF k = 0 THEN b ELSE AfterNext(AfterNexts(b, k - 1))

\* C33: in every state of a carousel of n > 1 slides, a next click followed
\* by a prev click, and a prev click followed by a next click, end on the
\* current index with that slide the one active slide; the k-th of n next
\* clicks ends on a different slide for each k, and the n-th on the current
\* index. The clicks of the model are these clicks.
C33_NextPrevRoundTrip ==
    /\ [](Length > 1 =>
            /\ AfterPrev(AfterNext(block)).currentSlide = block.currentSlide
            /\ AfterNext(AfterPrev(block)).currentSlide = block.currentSlide
            /\ ActiveSlides(AfterPrev(AfterNext(block))) = ActiveSlides(block)
            /\ ActiveSlides(AfterNext(AfterPrev(block))) = ActiveSlides(block)
            /\ {parseInt(AfterNexts(block, k).currentSlide) : k \in 1..Length}
                   = 0..(Length - 1)
            /\ \A k \in 1..Length :
                   ActiveSlides(AfterNexts(block, k))
                       = {parseInt(AfterNexts(block, k).currentSlide)}
            /\ AfterNexts(block, Length).currentSlide = block.currentSlide)
    /\ [][NextClick => block' = AfterNext(block)]_vars
    /\ [][PrevClick => block' = AfterPrev(block)]_vars

\* a three-slide carousel on its last slide, reached by a click on prev from
\* slide 0: the next click wraps
C33_Witness ==
    /\ Length = 3
    /\ calls = <<0 - 1>>
    /\ block.currentSlide = <<"2">>
    /\ AfterNext(block).currentSlide = <<"0">>
    /\ ENABLED NextClick

\* block b shows slide i: it is the one active slide and currentSlide names it
Shows(b, i) ==
    /\ ActiveSlides(b) = {i}
    /\ b.currentSlide = IntToString(i)

\* the thumbnail at position p was built from row i: row i holds an img and
\* p rows before it do
BuiltFrom(p, i) ==
    /\ i \in DOMAIN rows
    /\ rowHasImg(rows[i])
    /\ Cardinality({j \in DOMAIN rows : j < i /\ rowHasImg(rows[j])}) = p

\* C34: a click on indicator i makes slide i the one active slide and sets
\* currentSlide to i; a click on the thumbnail built from row i does the same
\* for slide i, whatever the position of that thumbnail among the thumbnails.
C34_ClickShowsItsSlide ==
    /\ [](\A i \in DOMAIN block.indicators : Shows(scrollToSlide(block, i), i))
    /\ [][\A i \in 0..(MaxSlides - 1) :
              IndicatorClick(i) => Shows(block', i)]_vars
    /\ [](\A p \in DOMAIN block.thumbnails :
              /\ BuiltFrom(p, block.thumbnails[p].index)
              /\ Shows(scrollToSlide(block, block.thumbnails[p].index),
                       block.thumbnails[p].index))
    /\ [][\A p \in 0..(MaxSlides - 1) :
              ThumbnailClick(p) => Shows(block', block.thumbnails[p].index)]_vars

\* the first row of three holds no image, so the thumbnail at position 1 was
\* built from slide 2, and a click has brought the carousel to slide 2
C34_Witness ==
    /\ Length = 3
    /\ ~rowHasImg(rows[0])
    /\ DOMAIN block.thumbnails = 0..1
    /\ BuiltFrom(1, 2)
    /\ block.thumbnails[1].index = 2
    /\ calls = <<2>>
    /\ Shows(block, 2)

\* the video id in the src createYouTubeEmbed wrote: the 11 characters after
\* https://www.youtube.com/embed/
EmbedId(src) == SubSeq(src, Len(StrEmbedBase) + 1, Len(StrEmbedBase) + IdLen)

\* C35: in every state the embed of every video slide holds the video id
\* decorate took from the link of its row.
C35_VideoIdKept ==
    \A i \in DOMAIN rows :
        block.slides[i].videoSlide =>
            EmbedId(block.slides[i].iframeSrc) = matchVideoId(rows[i].href)

====
